---- MODULE Spec2Model ----
(***************************************************************************)
(* Model of src/lry_tools/LabelStudio/LS-full2Coco-KPT.py: the converter   *)
(* LSConverter that turns a Label Studio export (boxes and 4-point         *)
(* polygons) into a COCO keypoint document.                                *)
(*                                                                         *)
(* Conventions.                                                            *)
(*  - Python None for a number is the sentinel None (-1): widths, heights  *)
(*    and percentages of the export are never negative.  Python truthiness *)
(*    ("not width") is the operator Falsy.                                 *)
(*  - A label record (a JSON object of the result list) is a record with a *)
(*    fixed set of fields; the keys the JSON object may or may not carry   *)
(*    are the set value_keys and the flags v_has_dims / t_has_dims.        *)
(*    A missing parentID is the empty string (label.get('parentID') is     *)
(*    tested for truthiness only).                                         *)
(*  - annotations_dict is a Python dict, which iterates in the order of    *)
(*    first insertion of each key: it is a sequence of entries with        *)
(*    distinct keys.                                                       *)
(*  - p * d / 100 is float division in Python; every percentage of the     *)
(*    label universe is a multiple of 50 and every dimension a multiple of *)
(*    100, so the quotient is exact and \div computes it.                  *)
(*  - The fields item and via/obj/kidx of an emitted annotation are        *)
(*    history fields: they record which task, which object and which       *)
(*    keypoint set the annotation was made from.  The code does not store  *)
(*    them; no guard reads them.                                           *)
(***************************************************************************)
EXTENDS Integers, Sequences, FiniteSets, TLC

\* ---------------------------------------------------------------- bounds
MaxTasks == 2          \* tasks in one export
MaxLabels == 3         \* label records in one export, over all its tasks
MaxCoord == 1          \* coordinates of the points given to _check_polygon_order
MaxPoints == 4         \* points given to _check_polygon_order
MaxNames == 3          \* Label elements in one group of the configuration
MaxListLen == 3        \* label records of the task processed in two orders

None == -1

Falsy(v) == v = None \/ v = 0

\* ------------------------------------------------------ the label universe
NoLabel ==
    [id |-> "", type |-> "None", parentID |-> "", value_keys |-> {},
     x |-> 0, y |-> 0, width |-> 0, height |-> 0, points |-> << >>,
     v_has_dims |-> FALSE, v_width |-> None, v_height |-> None,
     t_has_dims |-> FALSE, t_width |-> None, t_height |-> None,
     name |-> ""]

\* where a label record carries original_width / original_height
NoDims  == [vh |-> FALSE, vw |-> None, vhh |-> None, th |-> FALSE, tw |-> None, thh |-> None]
TopDims == [vh |-> FALSE, vw |-> None, vhh |-> None, th |-> TRUE,  tw |-> 100,  thh |-> 100]
ValDims == [vh |-> TRUE,  vw |-> 100,  vhh |-> 100,  th |-> FALSE, tw |-> None, thh |-> None]
ZeroVal == [vh |-> TRUE,  vw |-> 0,    vhh |-> 0,    th |-> TRUE,  tw |-> 100,  thh |-> 100]
ZeroOnly == [vh |-> TRUE, vw |-> 0,    vhh |-> 0,    th |-> FALSE, tw |-> None, thh |-> None]

WithDims(l, d) ==
    [l EXCEPT !.v_has_dims = d.vh, !.v_width = d.vw, !.v_height = d.vhh,
              !.t_has_dims = d.th, !.t_width = d.tw, !.t_height = d.thh]

BoxLabel(id, x, y, w, h) ==
    [NoLabel EXCEPT !.id = id, !.type = "rectanglelabels",
                    !.value_keys = {"x", "y", "width", "height", "rectanglelabels"},
                    !.x = x, !.y = y, !.width = w, !.height = h, !.name = "rect"]

PolygonLabel(id, parent, pts) ==
    [NoLabel EXCEPT !.id = id, !.type = "polygonlabels", !.parentID = parent,
                    !.value_keys = {"points", "polygonlabels"},
                    !.points = pts, !.name = "front"]

P4in  == << <<0, 0>>, <<50, 0>>, <<50, 50>>, <<0, 50>> >>
P4out == << <<0, 0>>, <<100, 0>>, <<100, 100>>, <<0, 100>> >>
P3    == << <<0, 0>>, <<50, 0>>, <<50, 50>> >>

Boxes ==
    { BoxLabel("B1", 0, 0, 50, 50), BoxLabel("B1", 0, 0, 100, 100),
      BoxLabel("B2", 0, 0, 100, 100), BoxLabel("B2", 50, 50, 50, 50) }

Polygons ==
    { PolygonLabel("K", parent, pts) : parent \in {"", "B1"}, pts \in {P4in, P4out, P3} }

\* a box label carrying a point list, a polygon label carrying box fields,
\* and a label of another type
Malformed ==
    { [BoxLabel("B1", 0, 0, 100, 100) EXCEPT !.value_keys = @ \cup {"points"}],
      [PolygonLabel("K", "B1", P4in) EXCEPT !.value_keys = @ \cup {"x"}],
      [NoLabel EXCEPT !.id = "T", !.type = "textarea"] }

Labels ==
    { WithDims(l, d) : l \in Boxes \cup Polygons \cup Malformed, d \in {NoDims, TopDims, ZeroVal} }
      \cup { WithDims(BoxLabel("B1", 0, 0, 50, 50), d) : d \in {ValDims, ZeroOnly} }

\* the label configuration document: the names of the PolygonLabels group
Config == << "front", "side", "back" >>

\* and the names of its RectangleLabels group
RectConfig == << "rect" >>

\* the configuration documents of the taxonomy runs: any two lists of names,
\* repeated names included
Names == {"front", "side", "back"}
NameSeqs == UNION { [1..n -> Names] : n \in 0..MaxNames }

\* --------------------------------------------------- LSConverter.__init__
\* enumerate(poly_labels, start=1): one category per Label element
PolyCategories(cfg) == [i \in 1..Len(cfg) |-> [id |-> i, name |-> cfg[i]]]

\* lines 38-45, the same loop over the RectangleLabels group
RectCategories(cfg) == [i \in 1..Len(cfg) |-> [id |-> i, name |-> cfg[i]]]

RectNameToId(cfg) ==
    [n \in {cfg[i] : i \in 1..Len(cfg)} |->
        CHOOSE i \in 1..Len(cfg) :
            cfg[i] = n /\ \A j \in 1..Len(cfg) : cfg[j] = n => j <= i]

RECURSIVE KeyOrder(_)
\* the order in which a dict filled by d[cfg[i]] = i iterates: each name at
\* the place of its first insertion
KeyOrder(cfg) ==
    IF cfg = << >> THEN << >>
    ELSE LET front == SubSeq(cfg, 1, Len(cfg) - 1)
             last == cfg[Len(cfg)]
         IN IF \E i \in 1..Len(front) : front[i] = last
            THEN KeyOrder(front)
            ELSE Append(KeyOrder(front), last)

\* the id map keeping the first write of a name
PolyNameToIdFirst(cfg) ==
    [n \in {cfg[i] : i \in 1..Len(cfg)} |->
        CHOOSE i \in 1..Len(cfg) :
            cfg[i] = n /\ \A j \in 1..Len(cfg) : cfg[j] = n => i <= j]

\* self.poly_name_to_id[name] = idx, in document order: the last write stays
PolyNameToId(cfg) ==
    [n \in {cfg[i] : i \in 1..Len(cfg)} |->
        CHOOSE i \in 1..Len(cfg) :
            cfg[i] = n /\ \A j \in 1..Len(cfg) : cfg[j] = n => j <= i]

\* _get_coco_categories: one entry per item of poly_name_to_id
GetCocoCategories(name_to_id, order) ==
    [i \in 1..Len(order) |->
        [id |-> name_to_id[order[i]],
         name |-> order[i],
         supercategory |-> "tm",
         keypoints |-> << "kpt0", "kpt1", "kpt2", "kpt3" >>,
         skeleton |-> << <<0, 1>>, <<1, 2>>, <<2, 3>>, <<3, 0>> >>]]

\* ------------------------------------------------------- pure conversions
Pixel(p, d) == (p * d) \div 100

\* the (width, height) a conversion uses: the task's, or - when one of them
\* is None or 0 - the label's own top-level original_width/original_height,
\* a KeyError when the label has none
OwnDimsNeeded(width, height) == Falsy(width) \/ Falsy(height)

\* _convert_bbox: [err, bbox]; err is "" or the exception raised: a
\* TypeError on bbox_ann = None, a KeyError on a missing original_width
ConvertBbox(bbox_ann, width, height) ==
    IF bbox_ann = NoLabel
    THEN [err |-> "TypeError", bbox |-> << >>]
    ELSE IF OwnDimsNeeded(width, height) /\ ~bbox_ann.t_has_dims
    THEN [err |-> "KeyError", bbox |-> << >>]
    ELSE LET wd == IF OwnDimsNeeded(width, height) THEN bbox_ann.t_width ELSE width
             ht == IF OwnDimsNeeded(width, height) THEN bbox_ann.t_height ELSE height
         IN [err |-> "",
             bbox |-> << Pixel(bbox_ann.x, wd), Pixel(bbox_ann.y, ht),
                         Pixel(bbox_ann.width, wd), Pixel(bbox_ann.height, ht) >>]

RECURSIVE Coords(_, _, _)
\* coords.extend([x, y, 2]) for each point
Coords(points, wd, ht) ==
    IF points = << >> THEN << >>
    ELSE << Pixel(Head(points)[1], wd), Pixel(Head(points)[2], ht), 2 >>
            \o Coords(Tail(points), wd, ht)

\* _convert_single_keypoint: [err, keypoints, num_keypoints]
ConvertSingleKeypoint(keypoint_ann, width, height) ==
    IF OwnDimsNeeded(width, height) /\ ~keypoint_ann.t_has_dims
    THEN [err |-> "KeyError", keypoints |-> << >>, num_keypoints |-> 0]
    ELSE LET wd == IF OwnDimsNeeded(width, height) THEN keypoint_ann.t_width ELSE width
             ht == IF OwnDimsNeeded(width, height) THEN keypoint_ann.t_height ELSE height
         IN [err |-> "",
             keypoints |-> Coords(keypoint_ann.points, wd, ht),
             num_keypoints |-> Len(keypoint_ann.points)]

\* [(keypoints[i], keypoints[i + 1]) for i in range(0, len(keypoints), 3)]
AbsPointsOf(keypoints) ==
    [i \in 1..(Len(keypoints) \div 3) |-> << keypoints[3 * i - 2], keypoints[3 * i - 1] >>]

\* [(p[0] * width / 100, p[1] * height / 100) for p in points], with the
\* task's width and height as they are (0 included)
OrphanAbsPoints(points, width, height) ==
    [i \in 1..Len(points) |-> << Pixel(points[i][1], width), Pixel(points[i][2], height) >>]

\* all(x_min <= x <= x_max and y_min <= y <= y_max for (x, y) in abs_points)
AllInside(abs_points, bbox) ==
    \A i \in 1..Len(abs_points) :
        /\ bbox[1] <= abs_points[i][1] /\ abs_points[i][1] <= bbox[1] + bbox[3]
        /\ bbox[2] <= abs_points[i][2] /\ abs_points[i][2] <= bbox[2] + bbox[4]

RECURSIVE ShoelaceFrom(_, _)
\* sum((points[(i+1) % n][0] - points[i][0]) * (points[(i+1) % n][1] + points[i][1]))
\* over i = 0 .. n-1, here i = k .. n with 1-based indices
ShoelaceFrom(points, k) ==
    IF k > Len(points) THEN 0
    ELSE LET nxt == points[(k % Len(points)) + 1]
         IN (nxt[1] - points[k][1]) * (nxt[2] + points[k][2]) + ShoelaceFrom(points, k + 1)

\* the sign test with the opposite sign
IsClockwiseFlipped(total) == total > 0

\* the sign test of the last line of _check_polygon_order
IsClockwise(total) == total < 0

\* _check_polygon_order
CheckPolygonOrder(points, expected_clockwise) ==
    IF Len(points) < 3 THEN FALSE
    ELSE IsClockwise(ShoelaceFrom(points, 1)) = expected_clockwise

\* ------------------------------------------------------------------ state
VARIABLES
    pc,                     \* where the run is: "new", "open", "for_item", "labels",
                            \* "linked", "orphans", "write", "done", "failed"
    failure,                \* the exception that ended the run, "" if none
    poly_categories,        \* self.poly_categories
    poly_name_to_id,        \* self.poly_name_to_id
    nTasks,                 \* len(ann_list)
    item_idx,               \* index of the current task in ann_list
    empty_annotations,      \* item['annotations'] of the current task is []
    image_id,               \* image_id = len(images_coco) at the start of the task
    width, height,          \* the task's dimensions, None until resolved
    annotations_dict,       \* the task's associated objects, in insertion order
    orphan_keypoints_list,  \* the task's polygons without parentID
    images_coco,            \* the images list
    annotations_coco,       \* the annotations list
    written,                \* how many times the output document was written
    labels_read,            \* label records read so far (bounded by MaxLabels)
    dims_reported,          \* history: a label of the current task reported dimensions
    chk_points, chk_expected, chk_result, \* an application of _check_polygon_order
    cfg_rect, cfg_poly,     \* the configuration document: the names of its two groups
    rect_categories,        \* self.rect_categories
    rect_name_to_id,        \* self.rect_name_to_id
    poly_name_order,        \* the order in which self.poly_name_to_id iterates
    categories_out,         \* the list _get_coco_categories returned, << >> before
    result_list             \* the result list of the task processed in two orders

vars == << pc, failure, poly_categories, poly_name_to_id, nTasks, item_idx,
           empty_annotations, image_id, width, height, annotations_dict,
           orphan_keypoints_list, images_coco, annotations_coco, written,
           labels_read, dims_reported, chk_points, chk_expected, chk_result,
           cfg_rect, cfg_poly, rect_categories, rect_name_to_id, poly_name_order,
           categories_out, result_list >>

chkVars == << chk_points, chk_expected, chk_result >>

\* what only the constructor writes, and what no action writes
taxVars == << rect_categories, rect_name_to_id, poly_name_order >>
inputVars == << cfg_rect, cfg_poly, result_list >>

\* ------------------------------------------------- annotations_dict helpers
Keys(d) == {d[i].key : i \in 1..Len(d)}

\* the position of key k in the dict (k in d)
IndexOfKey(d, k) == CHOOSE i \in 1..Len(d) : d[i].key = k

\* annotations_dict[label_studio_id] = {'bbox': label, 'keypoints': []}
NewObject(label) == [key |-> label.id, bbox |-> label, keypoints |-> << >>]

\* annotations_dict[parent_id] = {'bbox': None, 'keypoints': [label]}
Placeholder(label) == [key |-> label.parentID, bbox |-> NoLabel, keypoints |-> << label >>]

\* a box that arrives for an existing key starts the object afresh
PutBoxFresh(d, label) ==
    IF label.id \in Keys(d)
    THEN [d EXCEPT ![IndexOfKey(d, label.id)] = NewObject(label)]
    ELSE Append(d, NewObject(label))

\* lines 129-138
PutBox(d, label) ==
    IF label.id \in Keys(d)
    THEN [d EXCEPT ![IndexOfKey(d, label.id)].bbox = label]
    ELSE Append(d, NewObject(label))

\* lines 146-155
PutKeypoints(d, label) ==
    IF label.parentID \notin Keys(d)
    THEN Append(d, Placeholder(label))
    ELSE [d EXCEPT ![IndexOfKey(d, label.parentID)].keypoints = Append(@, label)]

\* the guard on an absent box, dropped
HasBboxAlways(data) == TRUE

\* "if not bbox_ann: continue" / "if data['bbox'] is None: continue"
HasBbox(data) == data.bbox # NoLabel

\* the arity check as an upper bound only
ArityLoose(num_keypoints) == num_keypoints <= 4

\* "if num_keypoints != 4: continue"
ArityOk(num_keypoints) == num_keypoints = 4

\* ------------------------------------------------ emission (lines 202-213)
\* annotations_coco.append({...}); via, obj and kidx are history fields
NewAnnotation(anns, bbox_ann, bbox, keypoint_ann, c, via, obj, kidx) ==
    [id |-> Len(anns),
     image_id |-> image_id,
     category_id |-> poly_name_to_id[keypoint_ann.name],
     bbox |-> bbox,
     area |-> bbox[3] * bbox[4],
     keypoints |-> c.keypoints,
     num_keypoints |-> c.num_keypoints,
     bbox_label |-> bbox_ann.name,
     item |-> item_idx, via |-> via, obj |-> obj, kidx |-> kidx]

RECURSIVE LinkedKeypoints(_, _, _, _)
\* lines 180-213: the keypoint sets of one object, from the k-th on
LinkedKeypoints(data, bbox, k, anns) ==
    IF k > Len(data.keypoints) THEN [err |-> "", anns |-> anns]
    ELSE LET keypoint_ann == data.keypoints[k]
             c == ConvertSingleKeypoint(keypoint_ann, width, height)
         IN IF c.err # "" THEN [err |-> c.err, anns |-> anns]
            ELSE IF ~ArityOk(c.num_keypoints)
            THEN LinkedKeypoints(data, bbox, k + 1, anns)
            ELSE IF ~AllInside(AbsPointsOf(c.keypoints), bbox)
            THEN LinkedKeypoints(data, bbox, k + 1, anns)
            ELSE IF keypoint_ann.name \notin DOMAIN poly_name_to_id
            THEN [err |-> "KeyError", anns |-> anns]
            ELSE LinkedKeypoints(data, bbox, k + 1,
                     Append(anns, NewAnnotation(anns, data.bbox, bbox, keypoint_ann, c,
                                                "parent", data.key, k)))

RECURSIVE LinkedObjects(_, _, _)
\* lines 169-213: the objects of annotations_dict, from the i-th on
LinkedObjects(d, i, anns) ==
    IF i > Len(d) THEN [err |-> "", anns |-> anns]
    ELSE IF ~HasBbox(d[i]) THEN LinkedObjects(d, i + 1, anns)
    ELSE LET b == ConvertBbox(d[i].bbox, width, height)
         IN IF b.err # "" THEN [err |-> b.err, anns |-> anns]
            ELSE LET r == LinkedKeypoints(d[i], b.bbox, 1, anns)
                 IN IF r.err # "" THEN r ELSE LinkedObjects(d, i + 1, r.anns)

RECURSIVE LastMatch(_, _, _)
\* the scan without its break: the last containing box wins
LastMatch(d, abs_points, i) ==
    IF i > Len(d) THEN [err |-> "", at |-> 0, bbox |-> << >>]
    ELSE IF d[i].bbox = NoLabel THEN LastMatch(d, abs_points, i + 1)
    ELSE LET b == ConvertBbox(d[i].bbox, width, height)
             rest == LastMatch(d, abs_points, i + 1)
         IN IF b.err # "" THEN [err |-> b.err, at |-> 0, bbox |-> << >>]
            ELSE IF rest.err # "" \/ rest.at # 0 THEN rest
            ELSE IF AllInside(abs_points, b.bbox)
            THEN [err |-> "", at |-> i, bbox |-> b.bbox]
            ELSE rest

RECURSIVE FirstMatch(_, _, _)
\* lines 224-232: the first object, from the i-th on, whose box is present
\* and contains abs_points; at = 0 when there is none
FirstMatch(d, abs_points, i) ==
    IF i > Len(d) THEN [err |-> "", at |-> 0, bbox |-> << >>]
    ELSE IF ~HasBbox(d[i]) THEN FirstMatch(d, abs_points, i + 1)
    ELSE LET b == ConvertBbox(d[i].bbox, width, height)
         IN IF b.err # "" THEN [err |-> b.err, at |-> 0, bbox |-> << >>]
            ELSE IF AllInside(abs_points, b.bbox)
            THEN [err |-> "", at |-> i, bbox |-> b.bbox]
            ELSE FirstMatch(d, abs_points, i + 1)

RECURSIVE OrphanPass(_, _, _)
\* lines 216-252: the orphans of the task, from the j-th on
OrphanPass(d, j, anns) ==
    IF j > Len(orphan_keypoints_list) THEN [err |-> "", anns |-> anns]
    ELSE LET keypoint_ann == orphan_keypoints_list[j].label
             abs_points == OrphanAbsPoints(keypoint_ann.points, width, height)
             m == FirstMatch(d, abs_points, 1)
         IN IF m.err # "" THEN [err |-> m.err, anns |-> anns]
            ELSE IF m.at = 0 THEN OrphanPass(d, j + 1, anns)
            ELSE IF keypoint_ann.name \notin DOMAIN poly_name_to_id
            THEN [err |-> "KeyError", anns |-> anns]
            ELSE LET c == ConvertSingleKeypoint(keypoint_ann, width, height)
                 IN IF c.err # "" THEN [err |-> c.err, anns |-> anns]
                    ELSE OrphanPass(d, j + 1,
                             Append(anns, NewAnnotation(anns, d[m.at].bbox, m.bbox,
                                        keypoint_ann, c, "orphan", d[m.at].key, j)))

\* ------------------------------------------------------------------- Init
Init ==
    /\ pc = "new"
    /\ failure = ""
    /\ poly_categories = << >>
    /\ poly_name_to_id = << >>
    /\ nTasks = 0
    /\ item_idx = 0
    /\ empty_annotations = FALSE
    /\ image_id = 0
    /\ width = None
    /\ height = None
    /\ annotations_dict = << >>
    /\ orphan_keypoints_list = << >>
    /\ images_coco = << >>
    /\ annotations_coco = << >>
    /\ written = 0
    /\ labels_read = 0
    /\ dims_reported = FALSE
    /\ chk_points = << >>
    /\ chk_expected = FALSE
    /\ chk_result = FALSE
    /\ cfg_rect = RectConfig
    /\ cfg_poly = Config
    /\ rect_categories = << >>
    /\ rect_name_to_id = << >>
    /\ poly_name_order = << >>
    /\ categories_out = << >>
    /\ result_list = << >>

\* an uncaught exception: nothing in the file catches any
Raise(exc) ==
    /\ pc' = "failed"
    /\ failure' = exc

\* ---------------------------------------------------------------- actions
\* LSConverter(config), lines 21-57; ET.parse raises on a malformed document
Construct ==
    /\ pc = "new"
    /\ \E parses \in BOOLEAN :
          IF parses
          THEN /\ rect_categories' = RectCategories(cfg_rect)
               /\ rect_name_to_id' = RectNameToId(cfg_rect)
               /\ poly_categories' = PolyCategories(cfg_poly)
               /\ poly_name_to_id' = PolyNameToId(cfg_poly)
               /\ poly_name_order' = KeyOrder(cfg_poly)
               /\ pc' = "open"
               /\ UNCHANGED failure
          ELSE /\ Raise("ParseError")
               /\ UNCHANGED << poly_categories, poly_name_to_id, taxVars >>
    /\ UNCHANGED << nTasks, item_idx, empty_annotations, image_id, width, height,
                    annotations_dict, orphan_keypoints_list, images_coco,
                    annotations_coco, written, labels_read, dims_reported >>
    /\ UNCHANGED << chkVars, inputVars, categories_out >>

\* lines 67-74: open(input_json) and json.load
LoadExport ==
    /\ pc = "open"
    /\ \E outcome \in {"", "FileNotFoundError", "JSONDecodeError"}, n \in 0..MaxTasks :
          IF outcome = ""
          THEN /\ nTasks' = n
               /\ pc' = "for_item"
               /\ UNCHANGED failure
          ELSE /\ Raise(outcome)
               /\ UNCHANGED nTasks
    /\ images_coco' = << >>
    /\ annotations_coco' = << >>
    /\ UNCHANGED << poly_categories, poly_name_to_id, item_idx, empty_annotations,
                    image_id, width, height, annotations_dict, orphan_keypoints_list,
                    written, labels_read, dims_reported >>
    /\ UNCHANGED << chkVars, inputVars, taxVars, categories_out >>

\* the write moved into the loop: it no longer waits for the last item
SomeItemsDone == item_idx >= 0

\* the for loop over ann_list has no item left
AllItemsDone == item_idx = nTasks

\* lines 76-87: the head of the loop body; item['annotations'][0] raises an
\* IndexError on an empty list
NextItem ==
    /\ pc = "for_item"
    /\ ~AllItemsDone
    /\ \E empty \in BOOLEAN :
          /\ empty_annotations' = empty
          /\ IF empty
             THEN /\ Raise("IndexError")
                  /\ UNCHANGED << image_id, width, height, annotations_dict,
                                  orphan_keypoints_list, dims_reported >>
             ELSE /\ image_id' = Len(images_coco)
                  /\ dims_reported' = FALSE
                  /\ width' = None
                  /\ height' = None
                  /\ annotations_dict' = << >>
                  /\ orphan_keypoints_list' = << >>
                  /\ pc' = "labels"
                  /\ UNCHANGED failure
    /\ UNCHANGED << poly_categories, poly_name_to_id, nTasks, item_idx, images_coco,
                    annotations_coco, written, labels_read >>
    /\ UNCHANGED << chkVars, inputVars, taxVars, categories_out >>

\* the dimensions taken for resolved from the start
DimsNeverUnresolved(w, h) == FALSE

\* line 91: "if not height or not width"
DimsUnresolved(w, h) == Falsy(h) \/ Falsy(w)

\* the test for the two keys, dropped
ReportsDimsAlways(label) == TRUE

\* lines 93 and 97: the label carries both keys, in value or at its top level
ReportsDims(label) == label.v_has_dims \/ label.t_has_dims

\* lines 94-95, 98-99: value first, top level second
ReportedWidth(label) == IF label.v_has_dims THEN label.v_width ELSE label.t_width
ReportedHeight(label) == IF label.v_has_dims THEN label.v_height ELSE label.t_height

\* lines 109-115
NewImage(w, h) ==
    [id |-> image_id, width |-> w, height |-> h, label_studio_image_id |-> item_idx]

\* lines 123-166: the label is filed by its type
Associate(label, w, h) ==
    IF label.type = "rectanglelabels"
    THEN /\ annotations_dict' =
                IF "points" \in label.value_keys THEN annotations_dict
                ELSE PutBox(annotations_dict, label)
         /\ UNCHANGED orphan_keypoints_list
    ELSE IF label.type = "polygonlabels"
    THEN IF "x" \in label.value_keys
         THEN UNCHANGED << annotations_dict, orphan_keypoints_list >>
         ELSE IF label.parentID # ""
         THEN /\ annotations_dict' = PutKeypoints(annotations_dict, label)
              /\ UNCHANGED orphan_keypoints_list
         ELSE /\ orphan_keypoints_list' =
                    Append(orphan_keypoints_list,
                           [label |-> label, width |-> w, height |-> h])
              /\ UNCHANGED annotations_dict
    ELSE UNCHANGED << annotations_dict, orphan_keypoints_list >>

\* lines 89-166: the body of "for label in all_labels" for one label
ReadLabel(label) ==
    /\ dims_reported' = (dims_reported \/ label.v_has_dims \/ label.t_has_dims)
    /\ IF DimsUnresolved(width, height)
       THEN IF ReportsDims(label)
            THEN /\ width' = ReportedWidth(label)
                 /\ height' = ReportedHeight(label)
                 /\ images_coco' = Append(images_coco,
                        NewImage(ReportedWidth(label), ReportedHeight(label)))
                 /\ Associate(label, ReportedWidth(label), ReportedHeight(label))
            ELSE UNCHANGED << width, height, images_coco, annotations_dict,
                              orphan_keypoints_list >>
       ELSE /\ UNCHANGED << width, height, images_coco >>
            /\ Associate(label, width, height)
    /\ labels_read' = labels_read + 1
    /\ UNCHANGED << pc, failure, poly_categories, poly_name_to_id, nTasks, item_idx,
                    empty_annotations, image_id, annotations_coco, written >>
    /\ UNCHANGED << chkVars, inputVars, taxVars, categories_out >>

\* one iteration of the loop, on any label record
ProcessLabel ==
    /\ pc = "labels"
    /\ labels_read < MaxLabels
    /\ \E label \in Labels : ReadLabel(label)

\* all_labels has no label left
EndLabels ==
    /\ pc = "labels"
    /\ pc' = "linked"
    /\ UNCHANGED << failure, poly_categories, poly_name_to_id, nTasks, item_idx,
                    empty_annotations, image_id, width, height, annotations_dict,
                    orphan_keypoints_list, images_coco, annotations_coco, written,
                    labels_read, dims_reported >>
    /\ UNCHANGED << chkVars, inputVars, taxVars, categories_out >>

\* lines 169-213: the loop over annotations_dict
LinkedPass ==
    /\ pc = "linked"
    /\ LET r == LinkedObjects(annotations_dict, 1, annotations_coco)
       IN /\ annotations_coco' = r.anns
          /\ IF r.err # "" THEN Raise(r.err)
             ELSE pc' = "orphans" /\ UNCHANGED failure
    /\ UNCHANGED << poly_categories, poly_name_to_id, nTasks, item_idx,
                    empty_annotations, image_id, width, height, annotations_dict,
                    orphan_keypoints_list, images_coco, written, labels_read,
                    dims_reported >>
    /\ UNCHANGED << chkVars, inputVars, taxVars, categories_out >>

\* lines 216-252: the loop over orphan_keypoints_list, then the next item
OrphansPass ==
    /\ pc = "orphans"
    /\ LET r == OrphanPass(annotations_dict, 1, annotations_coco)
       IN /\ annotations_coco' = r.anns
          /\ IF r.err # ""
             THEN Raise(r.err) /\ UNCHANGED item_idx
             ELSE /\ pc' = "for_item"
                  /\ item_idx' = item_idx + 1
                  /\ UNCHANGED failure
    /\ UNCHANGED << poly_categories, poly_name_to_id, nTasks, empty_annotations,
                    image_id, width, height, annotations_dict, orphan_keypoints_list,
                    images_coco, written, labels_read, dims_reported >>
    /\ UNCHANGED << chkVars, inputVars, taxVars, categories_out >>

\* lines 254-271: json.dump of the whole document, after the loop
WriteOutput ==
    /\ pc = "for_item"
    /\ AllItemsDone
    /\ written' = written + 1
    /\ categories_out' = GetCocoCategories(poly_name_to_id, poly_name_order)
    /\ pc' = "done"
    /\ UNCHANGED << failure, poly_categories, poly_name_to_id, nTasks, item_idx,
                    empty_annotations, image_id, width, height, annotations_dict,
                    orphan_keypoints_list, images_coco, annotations_coco,
                    labels_read, dims_reported >>
    /\ UNCHANGED << chkVars, inputVars, taxVars >>

Next ==
    \/ Construct
    \/ LoadExport
    \/ NextItem
    \/ ProcessLabel
    \/ EndLabels
    \/ LinkedPass
    \/ OrphansPass
    \/ WriteOutput

Spec == Init /\ [][Next]_vars

\* ------------------------------ _check_polygon_order applied to any input
PointSeqs == UNION { [1..n -> (0..MaxCoord) \X (0..MaxCoord)] : n \in 0..MaxPoints }

InitOrder ==
    /\ pc = "chk_call"
    /\ failure = ""
    /\ poly_categories = << >>
    /\ poly_name_to_id = << >>
    /\ nTasks = 0
    /\ item_idx = 0
    /\ empty_annotations = FALSE
    /\ image_id = 0
    /\ width = None
    /\ height = None
    /\ annotations_dict = << >>
    /\ orphan_keypoints_list = << >>
    /\ images_coco = << >>
    /\ annotations_coco = << >>
    /\ written = 0
    /\ labels_read = 0
    /\ dims_reported = FALSE
    /\ chk_points \in PointSeqs
    /\ chk_expected \in BOOLEAN
    /\ chk_result = FALSE
    /\ cfg_rect = RectConfig
    /\ cfg_poly = Config
    /\ rect_categories = << >>
    /\ rect_name_to_id = << >>
    /\ poly_name_order = << >>
    /\ categories_out = << >>
    /\ result_list = << >>

\* the call _check_polygon_order(chk_points, chk_expected) and its return
CheckOrder ==
    /\ pc = "chk_call"
    /\ chk_result' = CheckPolygonOrder(chk_points, chk_expected)
    /\ pc' = "chk_return"
    /\ UNCHANGED << failure, poly_categories, poly_name_to_id, nTasks, item_idx,
                    empty_annotations, image_id, width, height, annotations_dict,
                    orphan_keypoints_list, images_coco, annotations_coco, written,
                    labels_read, dims_reported, chk_points, chk_expected >>
    /\ UNCHANGED << inputVars, taxVars, categories_out >>

NextOrder == CheckOrder

SpecOrder == InitOrder /\ [][NextOrder]_vars

\* --------------------- the constructor and _get_coco_categories on any config
InitTaxonomy ==
    /\ pc = "new"
    /\ failure = ""
    /\ poly_categories = << >>
    /\ poly_name_to_id = << >>
    /\ nTasks = 0
    /\ item_idx = 0
    /\ empty_annotations = FALSE
    /\ image_id = 0
    /\ width = None
    /\ height = None
    /\ annotations_dict = << >>
    /\ orphan_keypoints_list = << >>
    /\ images_coco = << >>
    /\ annotations_coco = << >>
    /\ written = 0
    /\ labels_read = 0
    /\ dims_reported = FALSE
    /\ chk_points = << >>
    /\ chk_expected = FALSE
    /\ chk_result = FALSE
    /\ cfg_rect \in NameSeqs
    /\ cfg_poly \in NameSeqs
    /\ rect_categories = << >>
    /\ rect_name_to_id = << >>
    /\ poly_name_order = << >>
    /\ categories_out = << >>
    /\ result_list = << >>

\* the call self._get_coco_categories() of line 258, on the constructed converter
Categories ==
    /\ pc = "open"
    /\ categories_out' = GetCocoCategories(poly_name_to_id, poly_name_order)
    /\ pc' = "categories"
    /\ UNCHANGED << failure, poly_categories, poly_name_to_id, nTasks, item_idx,
                    empty_annotations, image_id, width, height, annotations_dict,
                    orphan_keypoints_list, images_coco, annotations_coco, written,
                    labels_read, dims_reported >>
    /\ UNCHANGED << chkVars, inputVars, taxVars >>

NextTaxonomy ==
    \/ Construct
    \/ Categories

SpecTaxonomy == InitTaxonomy /\ [][NextTaxonomy]_vars

\* ------------- one result list processed as given and with its boxes first
TopDims200 == [vh |-> FALSE, vw |-> None, vhh |-> None, th |-> TRUE, tw |-> 200, thh |-> 200]

OrderLabels ==
    { WithDims(l, d) :
        l \in { BoxLabel("B1", 0, 0, 50, 50), BoxLabel("B1", 0, 0, 100, 100),
                PolygonLabel("K", "B1", P4in), PolygonLabel("K", "B1", P3),
                PolygonLabel("K", "", P4in) },
        d \in {NoDims, TopDims, ZeroVal, TopDims200} }

ResultLists == UNION { [1..n -> OrderLabels] : n \in 0..MaxListLen }

IsBoxLabel(l) == l.type = "rectanglelabels"
IsNoBoxLabel(l) == l.type # "rectanglelabels"

\* the same records with every BoxLabel moved before the other records
BoxFirst(list) == SelectSeq(list, IsBoxLabel) \o SelectSeq(list, IsNoBoxLabel)

\* item['annotations'][0]['result'] of the two tasks of the export
ResultOf(t) == IF t = 0 THEN result_list ELSE BoxFirst(result_list)

\* how many records of the current task the label loop has read
ReadInTask == labels_read - item_idx * Len(result_list)

\* the export with its two tasks is loaded, the converter constructed
InitTwoOrders ==
    /\ pc = "for_item"
    /\ failure = ""
    /\ poly_categories = PolyCategories(Config)
    /\ poly_name_to_id = PolyNameToId(Config)
    /\ nTasks = 2
    /\ item_idx = 0
    /\ empty_annotations = FALSE
    /\ image_id = 0
    /\ width = None
    /\ height = None
    /\ annotations_dict = << >>
    /\ orphan_keypoints_list = << >>
    /\ images_coco = << >>
    /\ annotations_coco = << >>
    /\ written = 0
    /\ labels_read = 0
    /\ dims_reported = FALSE
    /\ chk_points = << >>
    /\ chk_expected = FALSE
    /\ chk_result = FALSE
    /\ cfg_rect = RectConfig
    /\ cfg_poly = Config
    /\ rect_categories = RectCategories(RectConfig)
    /\ rect_name_to_id = RectNameToId(RectConfig)
    /\ poly_name_order = KeyOrder(Config)
    /\ categories_out = << >>
    /\ result_list \in ResultLists

\* one iteration of "for label in all_labels" on the next record of the task
FeedLabel ==
    /\ pc = "labels"
    /\ ReadInTask < Len(result_list)
    /\ ReadLabel(ResultOf(item_idx)[ReadInTask + 1])

\* the loop ends when the result list is used up
EndFedLabels ==
    /\ ReadInTask = Len(result_list)
    /\ EndLabels

NextTwoOrders ==
    \/ NextItem
    \/ FeedLabel
    \/ EndFedLabels
    \/ LinkedPass
    \/ OrphansPass
    \/ WriteOutput

SpecTwoOrders == InitTwoOrders /\ [][NextTwoOrders]_vars

\* ================================================================ claims
\* the task annotations_dict, orphan_keypoints_list, width and height belong to
DictItem ==
    IF pc \in {"labels", "linked", "orphans"}
       \/ (pc = "failed" /\ failure \in {"KeyError", "TypeError"})
    THEN item_idx
    ELSE item_idx - 1

\* the parent-linked pass of the task DictItem has run to its end
LinkedDone == pc \in {"orphans", "for_item", "done"}

\* the orphan pass of the task DictItem has run to its end
OrphansDone == pc \in {"for_item", "done"}

AnnIdx == 1..Len(annotations_coco)

\* the annotations made from keypoint set kidx of object obj (via = "parent")
\* or from orphan kidx (via = "orphan") of task t
AnnsFrom(t, via, obj, kidx) ==
    { i \in AnnIdx : /\ annotations_coco[i].item = t
                     /\ annotations_coco[i].via = via
                     /\ annotations_coco[i].obj = obj
                     /\ annotations_coco[i].kidx = kidx }

\* C1: every emitted annotation has exactly 4 keypoints (num_keypoints = 4),
\* parent-linked or orphan-resolved
C1_FourKeypoints ==
    \A i \in AnnIdx :
        /\ annotations_coco[i].num_keypoints = 4
        /\ Len(annotations_coco[i].keypoints) = 12

\* C2: every keypoint (x, y) of an emitted annotation lies inside the
\* annotation's own bbox [bx, by, bw, bh], edges included
C2_KeypointsInsideBbox ==
    \A i \in AnnIdx :
        LET a == annotations_coco[i]
        IN \A n \in 1..(Len(a.keypoints) \div 3) :
              /\ a.bbox[1] <= a.keypoints[3 * n - 2]
              /\ a.keypoints[3 * n - 2] <= a.bbox[1] + a.bbox[3]
              /\ a.bbox[2] <= a.keypoints[3 * n - 1]
              /\ a.keypoints[3 * n - 1] <= a.bbox[2] + a.bbox[4]

\* C3: an object whose box is absent produces no annotation, neither for its
\* own keypoint sets nor as the box of an orphan, and its absent box is never
\* handed to a conversion (no TypeError on None)
C3_NoGhostAnnotation ==
    /\ \A i \in AnnIdx :
          annotations_coco[i].item = DictItem =>
             \E n \in 1..Len(annotations_dict) :
                 /\ annotations_dict[n].key = annotations_coco[i].obj
                 /\ annotations_dict[n].bbox.type = "rectanglelabels"
                 /\ annotations_coco[i].bbox_label = annotations_dict[n].bbox.name
    /\ failure # "TypeError"

\* a task ended with a placeholder holding a 4-point set, an orphan and an
\* annotation made from another object
C3_Witness ==
    /\ OrphansDone
    /\ \E n \in 1..Len(annotations_dict) :
          /\ annotations_dict[n].bbox = NoLabel
          /\ \E k \in 1..Len(annotations_dict[n].keypoints) :
                Len(annotations_dict[n].keypoints[k].points) = 4
    /\ Len(orphan_keypoints_list) >= 1
    /\ \E i \in AnnIdx : annotations_coco[i].item = DictItem

\* the objects of the task whose present box contains every point of orphan j
Candidates(j) ==
    { n \in 1..Len(annotations_dict) :
        /\ annotations_dict[n].bbox # NoLabel
        /\ LET b == ConvertBbox(annotations_dict[n].bbox, width, height).bbox
               pts == orphan_keypoints_list[j].label.points
           IN \A q \in 1..Len(pts) :
                 /\ b[1] <= Pixel(pts[q][1], width)
                 /\ Pixel(pts[q][1], width) <= b[1] + b[3]
                 /\ b[2] <= Pixel(pts[q][2], height)
                 /\ Pixel(pts[q][2], height) <= b[2] + b[4] }

\* the annotations made from orphan j of the task DictItem
OrphanAnns(j) ==
    { i \in AnnIdx : /\ annotations_coco[i].item = DictItem
                     /\ annotations_coco[i].via = "orphan"
                     /\ annotations_coco[i].kidx = j }

\* C4: once the orphan pass of a task is over, each orphan has exactly one
\* annotation, made with the earliest-created object whose present box
\* contains all its points, and none when no box contains it
C4_FirstContainingBox ==
    OrphansDone =>
        \A j \in 1..Len(orphan_keypoints_list) :
            IF Candidates(j) = {}
            THEN OrphanAnns(j) = {}
            ELSE LET first == CHOOSE n \in Candidates(j) : \A m \in Candidates(j) : n <= m
                 IN /\ Cardinality(OrphanAnns(j)) = 1
                    /\ \A i \in OrphanAnns(j) :
                          /\ annotations_coco[i].obj = annotations_dict[first].key
                          /\ annotations_coco[i].bbox =
                                ConvertBbox(annotations_dict[first].bbox, width, height).bbox

\* an orphan inside two boxes of different extent was bound
C4_Witness ==
    /\ OrphansDone
    /\ \E j \in 1..Len(orphan_keypoints_list) :
          /\ \E n, m \in Candidates(j) :
                /\ n < m
                /\ ConvertBbox(annotations_dict[n].bbox, width, height).bbox
                      # ConvertBbox(annotations_dict[m].bbox, width, height).bbox
          /\ OrphanAnns(j) # {}

\* the two point sequences of the winding-order example
SquareA == << <<0, 0>>, <<1, 0>>, <<1, 1>>, <<0, 1>> >>
SquareB == << <<0, 0>>, <<0, 1>>, <<1, 1>>, <<1, 0>> >>

\* the cyclic sum of (x[i+1] - x[i]) * (y[i+1] + y[i]) of four points, term by term
Sum4(p) ==
      (p[2][1] - p[1][1]) * (p[2][2] + p[1][2])
    + (p[3][1] - p[2][1]) * (p[3][2] + p[2][2])
    + (p[4][1] - p[3][1]) * (p[4][2] + p[3][2])
    + (p[1][1] - p[4][1]) * (p[1][2] + p[4][2])

\* C5 as stated: with expected_clockwise = true the check returns false for
\* (0,0),(1,0),(1,1),(0,1) and true for (0,0),(0,1),(1,1),(1,0)
C5_AsStated ==
    (pc = "chk_return" /\ chk_expected = TRUE) =>
        /\ chk_points = SquareA => chk_result = FALSE
        /\ chk_points = SquareB => chk_result = TRUE

\* C5 amended: with expected_clockwise = true the check returns true for
\* (0,0),(1,0),(1,1),(0,1), whose sum is negative, and false for
\* (0,0),(0,1),(1,1),(1,0), whose sum is positive; for any four points the
\* result is "the sum is negative" = expected_clockwise
C5_NegativeSumIsClockwise ==
    pc = "chk_return" =>
        /\ chk_expected = TRUE /\ chk_points = SquareA => chk_result = TRUE
        /\ chk_expected = TRUE /\ chk_points = SquareB => chk_result = FALSE
        /\ Len(chk_points) = 4 => chk_result = ((Sum4(chk_points) < 0) = chk_expected)

\* the check has returned for (0,0),(1,0),(1,1),(0,1) and expected_clockwise = true
C5_Witness ==
    /\ pc = "chk_return"
    /\ chk_expected = TRUE
    /\ chk_points = SquareA
    /\ chk_result = TRUE

\* C6: a task whose annotations list is empty does not end the run: it is
\* skipped and the run goes on
C6_EmptyTaskSkipped ==
    empty_annotations => (pc # "failed" /\ failure = "")

\* the keypoint sets of the objects of the task that have a present box:
\* their conversions, as the parent-linked pass makes them
KpConv(n, k) == ConvertSingleKeypoint(annotations_dict[n].keypoints[k], width, height)
BoxConv(n) == ConvertBbox(annotations_dict[n].bbox, width, height)

Boxed == { n \in 1..Len(annotations_dict) : annotations_dict[n].bbox # NoLabel }

\* C7 as stated: when a keypoint set of an object has a point count other
\* than 4, no annotation is emitted for any keypoint set of that object
C7_AsStated ==
    LinkedDone =>
        \A n \in Boxed :
            (\E k \in 1..Len(annotations_dict[n].keypoints) :
                 Len(annotations_dict[n].keypoints[k].points) # 4)
            => \A k \in 1..Len(annotations_dict[n].keypoints) :
                   AnnsFrom(DictItem, "parent", annotations_dict[n].key, k) = {}

\* C7 amended: a keypoint set whose point count is not 4 is skipped alone: no
\* annotation is emitted for it, and every other keypoint set of the same
\* object that has exactly 4 points inside the box has its one annotation
C7_OnlyTheSetIsSkipped ==
    LinkedDone =>
        \A n \in Boxed :
            \A k \in 1..Len(annotations_dict[n].keypoints) :
                LET pts == annotations_dict[n].keypoints[k].points
                    made == AnnsFrom(DictItem, "parent", annotations_dict[n].key, k)
                IN /\ Len(pts) # 4 => made = {}
                   /\ (Len(pts) = 4 /\ AllInside(AbsPointsOf(KpConv(n, k).keypoints),
                                                BoxConv(n).bbox))
                         => Cardinality(made) = 1

\* an object with a 3-point set and a 4-point set inside its box, the second emitted
C7_Witness ==
    /\ LinkedDone
    /\ \E n \in Boxed :
          \E k1, k2 \in 1..Len(annotations_dict[n].keypoints) :
              /\ Len(annotations_dict[n].keypoints[k1].points) # 4
              /\ Len(annotations_dict[n].keypoints[k2].points) = 4
              /\ AnnsFrom(DictItem, "parent", annotations_dict[n].key, k1) = {}
              /\ AnnsFrom(DictItem, "parent", annotations_dict[n].key, k2) # {}

\* C8: a task none of whose labels reports dimensions contributes no image
\* and no annotation, and no exception is raised while its labels are processed
C8_NoDimsNoOutput ==
    /\ (DictItem >= 0 /\ ~dims_reported) =>
          /\ \A i \in 1..Len(images_coco) : images_coco[i].label_studio_image_id # DictItem
          /\ \A i \in AnnIdx : annotations_coco[i].item # DictItem
          /\ annotations_dict = << >>
          /\ orphan_keypoints_list = << >>
    /\ (pc = "failed" /\ failure \in {"KeyError", "TypeError"}) => dims_reported

\* the first of two tasks had two or more labels, none with dimensions; it is
\* over, nothing was emitted and the loop is at the second task
C8_Witness ==
    /\ pc = "for_item"
    /\ item_idx = 1
    /\ nTasks = 2
    /\ ~dims_reported
    /\ labels_read >= 2
    /\ images_coco = << >>
    /\ annotations_coco = << >>

\* C9: the output document is written at most once, only when every task has
\* been processed, and a run that ended in an exception wrote nothing
C9_WriteOnceAtEnd ==
    /\ written <= 1
    /\ written = 1 => (pc = "done" /\ item_idx = nTasks)
    /\ pc = "done" => written = 1
    /\ pc = "failed" => written = 0

\* a run that failed in its second task, after the first gave an image
C9_Witness ==
    /\ pc = "failed"
    /\ failure = "KeyError"
    /\ item_idx = 1
    /\ \E i \in 1..Len(images_coco) : images_coco[i].label_studio_image_id = 0
    /\ written = 0

\* C10: each task has at most one entry in the images list and the ids of the
\* list are 0, 1, 2, ... in order
C10_OneImagePerTask ==
    /\ \A i, j \in 1..Len(images_coco) :
          i # j => images_coco[i].label_studio_image_id # images_coco[j].label_studio_image_id
    /\ \A i \in 1..Len(images_coco) : images_coco[i].id = i - 1

\* the constructor has returned
Constructed == pc \notin {"new", "failed", "chk_call", "chk_return"}

\* the last position of name n in the list cfg is i
LastAt(cfg, n, i) ==
    /\ i \in 1..Len(cfg)
    /\ cfg[i] = n
    /\ \A j \in (i + 1)..Len(cfg) : cfg[j] # n

\* C11: in each taxonomy, on its own, the category list has one entry per
\* Label element, the i-th with id i and the i-th name, repeated names
\* included, and the id map gives each name the id of its last occurrence
C11_TaxonomyIds ==
    Constructed =>
        /\ Len(rect_categories) = Len(cfg_rect)
        /\ Len(poly_categories) = Len(cfg_poly)
        /\ \A i \in 1..Len(cfg_rect) :
              rect_categories[i].id = i /\ rect_categories[i].name = cfg_rect[i]
        /\ \A i \in 1..Len(cfg_poly) :
              poly_categories[i].id = i /\ poly_categories[i].name = cfg_poly[i]
        /\ DOMAIN rect_name_to_id = {cfg_rect[i] : i \in 1..Len(cfg_rect)}
        /\ DOMAIN poly_name_to_id = {cfg_poly[i] : i \in 1..Len(cfg_poly)}
        /\ \A n \in DOMAIN rect_name_to_id : LastAt(cfg_rect, n, rect_name_to_id[n])
        /\ \A n \in DOMAIN poly_name_to_id : LastAt(cfg_poly, n, poly_name_to_id[n])

\* a converter built from a polygon group that repeats a name and a
\* rectangle group of another length
C11_Witness ==
    /\ Constructed
    /\ cfg_poly = << "front", "side", "front" >>
    /\ cfg_rect = << "side" >>
    /\ Len(poly_categories) = 3
    /\ poly_name_to_id["front"] = 3
    /\ rect_name_to_id["side"] = 1

\* C12: the categories of the output are the polygon category list, entry by
\* entry in the same order, repeated names included, each with 4 keypoint
\* names and the skeleton [[0,1],[1,2],[2,3],[3,0]]
C12_FullPolygonTaxonomy ==
    pc \in {"categories", "done"} =>
        /\ Len(categories_out) = Len(poly_categories)
        /\ \A i \in 1..Len(categories_out) :
              /\ i <= Len(poly_categories)
              /\ categories_out[i].id = poly_categories[i].id
              /\ categories_out[i].name = poly_categories[i].name
              /\ Len(categories_out[i].keypoints) = 4
              /\ categories_out[i].skeleton = << <<0, 1>>, <<1, 2>>, <<2, 3>>, <<3, 0>> >>

\* both tasks of the export have gone through both passes
BothDone == pc \in {"for_item", "done"} /\ item_idx = 2

\* the parent-linked annotations of task t, without their ids
LinkedOf(t) ==
    { [obj |-> annotations_coco[i].obj, kidx |-> annotations_coco[i].kidx,
       bbox |-> annotations_coco[i].bbox, keypoints |-> annotations_coco[i].keypoints,
       num_keypoints |-> annotations_coco[i].num_keypoints,
       category_id |-> annotations_coco[i].category_id,
       bbox_label |-> annotations_coco[i].bbox_label] :
        i \in { n \in AnnIdx : annotations_coco[n].item = t /\ annotations_coco[n].via = "parent" } }

\* every record of the list carries the two dimension keys, with the same values
SameDimsReported(list) ==
    /\ \A i \in 1..Len(list) : list[i].v_has_dims \/ list[i].t_has_dims
    /\ \A i, j \in 1..Len(list) :
          /\ (IF list[i].v_has_dims THEN list[i].v_width ELSE list[i].t_width)
                = (IF list[j].v_has_dims THEN list[j].v_width ELSE list[j].t_width)
          /\ (IF list[i].v_has_dims THEN list[i].v_height ELSE list[i].t_height)
                = (IF list[j].v_has_dims THEN list[j].v_height ELSE list[j].t_height)

IsChildOfB1(l) == l.type = "polygonlabels" /\ l.parentID = "B1"

\* the positions of the BoxLabels with id B1 in a list
BoxPositions(list) ==
    { i \in 1..Len(list) : list[i].type = "rectanglelabels" /\ list[i].id = "B1" }

\* C13 as stated: the parent-linked annotations of a task are the same
\* whether its BoxLabels precede or follow their children
C13_AsStated ==
    BothDone => LinkedOf(0) = LinkedOf(1)

\* C13 amended: in a task all of whose label records report the same
\* dimensions, once the labels are read the object keyed P holds every
\* PolygonLabel with parentID P in their order and the last BoxLabel with id P
\* (none lost when the box completes a placeholder or replaces a box), and the
\* parent-linked annotations are the same as with the BoxLabels first
C13_OrderIndependentWithDims ==
    SameDimsReported(result_list) =>
        /\ (pc \in {"linked", "orphans"} /\ item_idx = 0) =>
              LET children == SelectSeq(result_list, IsChildOfB1)
                  boxes == BoxPositions(result_list)
              IN IF children = << >> /\ boxes = {}
                 THEN annotations_dict = << >>
                 ELSE /\ Len(annotations_dict) = 1
                      /\ annotations_dict[1].key = "B1"
                      /\ annotations_dict[1].keypoints = children
                      /\ annotations_dict[1].bbox =
                            IF boxes = {} THEN NoLabel
                            ELSE result_list[CHOOSE i \in boxes : \A j \in boxes : j <= i]
        /\ BothDone => LinkedOf(0) = LinkedOf(1)

\* a 4-point child read before its box gave its annotation in both orders
C13_Witness ==
    /\ BothDone
    /\ SameDimsReported(result_list)
    /\ Len(result_list) >= 2
    /\ IsChildOfB1(result_list[1])
    /\ BoxPositions(result_list) # {}
    /\ LinkedOf(0) # {}
    /\ LinkedOf(1) # {}

\* the record the next iteration of the label loop reads
NextRecord == ResultOf(item_idx)[ReadInTask + 1]

\* the first record of task t that carries the two dimension keys (past the
\* end when there is none)
FirstDimsAt(t) ==
    LET list == ResultOf(t)
        with == { i \in 1..Len(list) : list[i].v_has_dims \/ list[i].t_has_dims }
    IN IF with = {} THEN Len(list) + 1
       ELSE CHOOSE i \in with : \A j \in with : i <= j

\* C14: a record read while no record of the task has reported dimensions,
\* and reporting none itself, leaves the objects, the keypoint lists, the
\* orphan queue and the images as they are; so a task has no more annotations
\* than polygon records from its first dimension-reporting record on
C14_EarlyLabelsExcluded ==
    /\ [][ ( /\ pc = "labels"
             /\ labels_read' = labels_read + 1
             /\ width = None /\ height = None
             /\ ~NextRecord.v_has_dims /\ ~NextRecord.t_has_dims )
           => ( /\ annotations_dict' = annotations_dict
                /\ orphan_keypoints_list' = orphan_keypoints_list
                /\ images_coco' = images_coco
                /\ annotations_coco' = annotations_coco
                /\ width' = None /\ height' = None ) ]_vars
    /\ [] ( \A t \in 0..1 :
              Cardinality({ i \in AnnIdx : annotations_coco[i].item = t })
                 <= Cardinality({ n \in FirstDimsAt(t)..Len(ResultOf(t)) :
                                    ResultOf(t)[n].type = "polygonlabels" }) )

\* a child without dimensions was read first, its box with dimensions second:
\* the object has the box and no keypoint set
C14_Witness ==
    /\ pc = "labels"
    /\ item_idx = 0
    /\ labels_read = 2
    /\ IsChildOfB1(result_list[1])
    /\ ~result_list[1].v_has_dims /\ ~result_list[1].t_has_dims
    /\ result_list[2].type = "rectanglelabels"
    /\ width = 100
    /\ Len(annotations_dict) = 1
    /\ annotations_dict[1].keypoints = << >>
    /\ orphan_keypoints_list = << >>

====
